---- MODULE Spec2Model ----
(***************************************************************************)
(* Model of action/grantreward.go: the GrantReward action, its protobuf    *)
(* conversion (Proto / LoadProto), its ABI encoding (EthData), its zero    *)
(* cost (IntrinsicGas / Cost) and GrantRewardBuilder.                       *)
(*                                                                         *)
(* Go structs live in a heap `mem` of GrantReward cells so that the        *)
(* difference between returning a struct by value (a fresh cell) and       *)
(* handing out a pointer (the same cell) is visible.  Cell "b.grantReward" *)
(* is the builder's own field, cell "g" backs the caller's GrantReward     *)
(* variable, and ent is the cell that variable denotes ("nil" while it is  *)
(* not yet assigned).                                                      *)
(*                                                                         *)
(* A uint64 is a tuple of four 16-bit limbs, least significant first, so   *)
(* that the whole 64-bit range is representable.                           *)
(***************************************************************************)
EXTENDS Integers, Sequences, FiniteSets, TLC

VARIABLES method, idArr, descWrites, bBuilder, mem, ent, last, calls

vars == <<method, idArr, descWrites, bBuilder, mem, ent, last, calls>>

(***************************************************************************)
(* Bounds                                                                  *)
(***************************************************************************)
NumCalls == 2

(***************************************************************************)
(* Program constants                                                       *)
(***************************************************************************)
BlockReward == 0
EpochReward == 1
RewardType_BlockReward == 0
RewardType_EpochReward == 1

NoError == "nil"

\* limbs of a uint64, least significant first
U64Zero == <<0, 0, 0, 0>>
U64Of100 == <<100, 0, 0, 0>>
MaxU64 == <<65535, 65535, 65535, 65535>>

\* inputs the operations are driven with
Heights == {U64Zero, U64Of100, MaxU64}
RewardTypes == {-129, BlockReward, EpochReward, 128}
WireTypes == {RewardType_BlockReward, RewardType_EpochReward, 2}
Nonces == {0, 1}

(***************************************************************************)
(* The embedded base action (AbstractAction) and the base Builder          *)
(***************************************************************************)
ZeroAbstractAction == [nonce |-> 0]

\* Builder.SetNonce: the base builder accumulates the base-action fragment
BuilderSetNonce(act, n) == [act EXCEPT !.nonce = n]

\* Builder.Build: hands the accumulated fragment out verbatim
BuilderBuild(act) == act

(***************************************************************************)
(* GrantReward                                                             *)
(***************************************************************************)
\* the zero value GrantReward{}
ZeroGrantReward ==
    [AbstractAction |-> ZeroAbstractAction, rewardType |-> 0, height |-> U64Zero]

RewardType(g) == g.rewardType

Height(g) == g.height

\* Proto: height copied, the type tag set only for the two known variants
\* (the message's zero value is RewardType_BlockReward)
ProtoDropsType(g) == [Height |-> g.height, Type |-> RewardType_BlockReward]

Proto(g) ==
    LET gProto == [Height |-> g.height, Type |-> 0]
    IN  CASE g.rewardType = BlockReward -> [gProto EXCEPT !.Type = RewardType_BlockReward]
          [] g.rewardType = EpochReward -> [gProto EXCEPT !.Type = RewardType_EpochReward]
          [] OTHER -> gProto

\* LoadProto: *g is overwritten by GrantReward{height: ...}, then the switch
LoadProtoRejectsUnknown(g, gProto) ==
    LET g1 == [ZeroGrantReward EXCEPT !.height = gProto.Height]
    IN  CASE gProto.Type = RewardType_BlockReward ->
                [g |-> [g1 EXCEPT !.rewardType = BlockReward], err |-> NoError]
          [] gProto.Type = RewardType_EpochReward ->
                [g |-> [g1 EXCEPT !.rewardType = EpochReward], err |-> NoError]
          [] OTHER -> [g |-> g1, err |-> "unknown reward type"]

LoadProtoNoReset(g, gProto) ==
    LET g1 == [g EXCEPT !.height = gProto.Height]
    IN  CASE gProto.Type = RewardType_BlockReward ->
                [g |-> [g1 EXCEPT !.rewardType = BlockReward], err |-> NoError]
          [] gProto.Type = RewardType_EpochReward ->
                [g |-> [g1 EXCEPT !.rewardType = EpochReward], err |-> NoError]
          [] OTHER -> [g |-> g1, err |-> NoError]

LoadProto(g, gProto) ==
    LET g1 == [ZeroGrantReward EXCEPT !.height = gProto.Height]
    IN  CASE gProto.Type = RewardType_BlockReward ->
                [g |-> [g1 EXCEPT !.rewardType = BlockReward], err |-> NoError]
          [] gProto.Type = RewardType_EpochReward ->
                [g |-> [g1 EXCEPT !.rewardType = EpochReward], err |-> NoError]
          [] OTHER -> [g |-> g1, err |-> NoError]


\* IntrinsicGas: (0, nil), whatever the receiver holds
IntrinsicGasPerLimb(g) == [gas |-> g.height[1], err |-> NoError]

IntrinsicGas(g) == [gas |-> 0, err |-> NoError]

\* Cost: (big.NewInt(0), nil)
Cost(g) == [cost |-> 0, err |-> NoError]

\* SanityCheck is promoted from the embedded base action: it looks at the
\* base-action fragment only, never at rewardType or height
AbstractActionSanityCheck(act) == NoError

SanityCheckNeedsHeight(g) ==
    IF g.height = U64Zero THEN "invalid height" ELSE AbstractActionSanityCheck(g.AbstractAction)

SanityCheck(g) == AbstractActionSanityCheck(g.AbstractAction)

(***************************************************************************)
(* ABI packing of (int8, uint64): abi.Arguments.Pack as EthData uses it    *)
(***************************************************************************)
RECURSIVE Repeat(_, _)
Repeat(b, n) == IF n = 0 THEN <<>> ELSE <<b>> \o Repeat(b, n - 1)

\* the Go conversion int8(x) of an int: the low 8 bits, read as signed
Int8(x) == ((x + 128) % 256) - 128

\* big-endian bytes of a uint64 held as limbs, most significant limb first
RECURSIVE LimbBytes(_, _)
LimbBytes(h, k) ==
    IF k = 0 THEN <<>> ELSE <<h[k] \div 256, h[k] % 256>> \o LimbBytes(h, k - 1)

RECURSIVE LimbBytesLittleEndian(_, _)
LimbBytesLittleEndian(h, k) ==
    IF k = 0 THEN <<>>
    ELSE LimbBytesLittleEndian(h, k - 1) \o <<h[k] % 256, h[k] \div 256>>

\* one 32-byte word per static argument: a signed integer as 256-bit two's
\* complement, an unsigned one zero-padded on the left
PackElementTight(arg) ==
    CASE arg.kind = "int8" -> <<arg.val % 256>>
      [] arg.kind = "uint64" -> LimbBytes(arg.val, 4)

PackElementWrongEndian(arg) ==
    CASE arg.kind = "int8" ->
            Repeat(IF arg.val < 0 THEN 255 ELSE 0, 31) \o <<arg.val % 256>>
      [] arg.kind = "uint64" -> Repeat(0, 24) \o LimbBytesLittleEndian(arg.val, 4)

PackElement(arg) ==
    CASE arg.kind = "int8" ->
            Repeat(IF arg.val < 0 THEN 255 ELSE 0, 31) \o <<arg.val % 256>>
      [] arg.kind = "uint64" -> Repeat(0, 24) \o LimbBytes(arg.val, 4)

RECURSIVE PackAll(_, _)
PackAll(args, k) ==
    IF k > Len(args) THEN <<>> ELSE PackElement(args[k]) \o PackAll(args, k + 1)

\* Arguments.Pack: the argument count and each argument's type must match the
\* method's inputs, otherwise an error and no data
Pack(inputs, args) ==
    IF Len(args) # Len(inputs)
    THEN [data |-> <<>>, err |-> "argument count mismatch"]
    ELSE IF \E k \in 1..Len(args) : args[k].kind # inputs[k]
         THEN [data |-> <<>>, err |-> "cannot use argument as type"]
         ELSE [data |-> PackAll(args, 1), err |-> NoError]

\* the arguments EthData hands to Pack
EthArgs(g) ==
    <<[kind |-> "int8", val |-> Int8(g.rewardType)],
      [kind |-> "uint64", val |-> g.height]>>

(***************************************************************************)
(* The ABI method descriptor _grantRewardMethod, set by init()             *)
(***************************************************************************)
\* Keccak-256 of "grantReward(int8,uint64)"; the method ID is its first 4
\* bytes, a slice of length 4 over this 32-byte array
SigHash ==
    <<215, 39, 120, 220, 167, 153, 62, 223, 140, 97, 48, 140, 46, 23, 88, 40,
      179, 9, 108, 62, 191, 54, 110, 150, 21, 145, 0, 203, 83, 125, 134, 86>>

GrantRewardMethod ==
    [Name |-> "grantReward",
     Inputs |-> <<"int8", "uint64">>,
     ID |-> [len |-> 4, cap |-> Len(SigHash)]]

\* the zero value of abi.Method, held until init() stores the parsed method
Unset == [Name |-> "", Inputs |-> <<>>, ID |-> [len |-> 0, cap |-> 0]]

Selector == SubSeq(SigHash, 1, 4)

\* Go's append(s, data...) on a slice s = arr[0:len] of capacity cap: within
\* capacity it writes into the shared array and returns a slice of it,
\* otherwise it copies into a fresh array
GoAppend(arr, s, data) ==
    LET n == s.len + Len(data)
    IN  IF n <= s.cap
        THEN [shared |-> TRUE, len |-> n, own |-> <<>>,
              arr |-> [k \in 1..Len(arr) |->
                          IF k > s.len /\ k <= n THEN data[k - s.len] ELSE arr[k]]]
        ELSE [shared |-> FALSE, len |-> n, own |-> SubSeq(arr, 1, s.len) \o data,
              arr |-> arr]

\* the bytes a slice returned by GoAppend shows when read against array arr
Bytes(r, arr) == IF r.shared THEN SubSeq(arr, 1, r.len) ELSE r.own

\* EthData run alone: [data, err] it returns and the descriptor array it leaves
EthData(g, m, arr) ==
    LET packed == Pack(m.Inputs, EthArgs(g))
    IN  IF packed.err # NoError
        THEN [data |-> <<>>, err |-> packed.err, arr |-> arr]
        ELSE LET r == GoAppend(arr, m.ID, packed.data)
             IN  [data |-> Bytes(r, r.arr), err |-> NoError, arr |-> r.arr]


(***************************************************************************)
(* GrantRewardBuilder                                                      *)
(***************************************************************************)
\* Build returns b.grantReward by value: the caller's variable g gets its own
\* copy of the builder's cell
BuildReturnsPointer(m) == [addr |-> "b.grantReward", mem |-> m]

BuildReturn(m) == [addr |-> "g", mem |-> [m EXCEPT !["g"] = m["b.grantReward"]]]

(***************************************************************************)
(* Sequential use: one builder b and one GrantReward variable g            *)
(***************************************************************************)
NoMsg == [Height |-> U64Zero, Type |-> 0]

\* the operation just performed: with which message, on which prior value of
\* the receiver, and what it returned
Did(op, msg, prev, err, val, data) ==
    [op |-> op, msg |-> msg, prev |-> prev, err |-> err, val |-> val, data |-> data]

Called(op) == Did(op, NoMsg, ZeroGrantReward, NoError, 0, <<>>)

IdleCall == [pc |-> "idle", g |-> ZeroGrantReward, data |-> <<>>, err |-> NoError,
             ret |-> [shared |-> FALSE, len |-> 0, own |-> <<>>]]

Init ==
    /\ method = GrantRewardMethod
    /\ idArr = SigHash
    /\ descWrites = 1
    /\ bBuilder = ZeroAbstractAction
    /\ mem = [a \in {"b.grantReward", "g"} |-> ZeroGrantReward]
    /\ ent = "nil"
    /\ last = Called("none")
    /\ calls = [c \in 1..NumCalls |-> IdleCall]

SetRewardType(t) ==
    /\ mem' = [mem EXCEPT !["b.grantReward"].rewardType = t]
    /\ last' = Called("SetRewardType")
    /\ UNCHANGED <<method, idArr, descWrites, bBuilder, ent, calls>>

SetHeight(h) ==
    /\ mem' = [mem EXCEPT !["b.grantReward"].height = h]
    /\ last' = Called("SetHeight")
    /\ UNCHANGED <<method, idArr, descWrites, bBuilder, ent, calls>>

SetNonce(n) ==
    /\ bBuilder' = BuilderSetNonce(bBuilder, n)
    /\ last' = Called("SetNonce")
    /\ UNCHANGED <<method, idArr, descWrites, mem, ent, calls>>

\* g = b.Build()
Build ==
    LET merged == [mem EXCEPT !["b.grantReward"].AbstractAction = BuilderBuild(bBuilder)]
        r == BuildReturn(merged)
    IN  /\ mem' = r.mem
        /\ ent' = r.addr
        /\ last' = Called("Build")
        /\ UNCHANGED <<method, idArr, descWrites, bBuilder, calls>>

\* b.Build() whose result the caller does not keep: only the merge of the
\* base-action fragment into b.grantReward remains
BuildUnused ==
    /\ mem' = [mem EXCEPT !["b.grantReward"].AbstractAction = BuilderBuild(bBuilder)]
    /\ last' = Called("BuildUnused")
    /\ UNCHANGED <<method, idArr, descWrites, bBuilder, ent, calls>>

\* g = GrantReward{rewardType: t, height: h}, as the package's test builds it
Literal(t, h) ==
    /\ mem' = [mem EXCEPT !["g"] = [ZeroGrantReward EXCEPT !.rewardType = t, !.height = h]]
    /\ ent' = "g"
    /\ last' = Called("Literal")
    /\ UNCHANGED <<method, idArr, descWrites, bBuilder, calls>>

\* g.LoadProto(msg)
CallLoadProto(msg) ==
    /\ ent # "nil"
    /\ LET r == LoadProto(mem[ent], msg)
       IN  /\ mem' = [mem EXCEPT ![ent] = r.g]
           /\ last' = Did("LoadProto", msg, mem[ent], r.err, 0, <<>>)
    /\ UNCHANGED <<method, idArr, descWrites, bBuilder, ent, calls>>

\* g.LoadProto(g.Proto())
RoundTrip ==
    /\ ent # "nil"
    /\ LET msg == Proto(mem[ent])
           r == LoadProto(mem[ent], msg)
       IN  /\ mem' = [mem EXCEPT ![ent] = r.g]
           /\ last' = Did("RoundTrip", msg, mem[ent], r.err, 0, <<>>)
    /\ UNCHANGED <<method, idArr, descWrites, bBuilder, ent, calls>>

\* g.SanityCheck()
CallSanityCheck ==
    /\ ent # "nil"
    /\ last' = Did("SanityCheck", NoMsg, ZeroGrantReward, SanityCheck(mem[ent]), 0, <<>>)
    /\ UNCHANGED <<method, idArr, descWrites, bBuilder, mem, ent, calls>>

\* g.IntrinsicGas()
CallIntrinsicGas ==
    /\ ent # "nil"
    /\ LET r == IntrinsicGas(mem[ent])
       IN  last' = Did("IntrinsicGas", NoMsg, ZeroGrantReward, r.err, r.gas, <<>>)
    /\ UNCHANGED <<method, idArr, descWrites, bBuilder, mem, ent, calls>>

\* g.Cost()
CallCost ==
    /\ ent # "nil"
    /\ LET r == Cost(mem[ent])
       IN  last' = Did("Cost", NoMsg, ZeroGrantReward, r.err, r.cost, <<>>)
    /\ UNCHANGED <<method, idArr, descWrites, bBuilder, mem, ent, calls>>

\* g.EthData()
CallEthData ==
    /\ ent # "nil"
    /\ LET r == EthData(mem[ent], method, idArr)
       IN  /\ idArr' = r.arr
           /\ descWrites' = IF r.arr = idArr THEN descWrites ELSE descWrites + 1
           /\ last' = Did("EthData", NoMsg, ZeroGrantReward, r.err, 0, r.data)
    /\ UNCHANGED <<method, bBuilder, mem, ent, calls>>

Next ==
    \/ \E t \in RewardTypes : SetRewardType(t)
    \/ \E h \in Heights : SetHeight(h)
    \/ \E n \in Nonces : SetNonce(n)
    \/ Build
    \/ BuildUnused
    \/ \E t \in RewardTypes, h \in Heights : Literal(t, h)
    \/ \E h \in Heights, t \in WireTypes : CallLoadProto([Height |-> h, Type |-> t])
    \/ RoundTrip
    \/ CallSanityCheck
    \/ CallIntrinsicGas
    \/ CallCost
    \/ CallEthData

Spec == Init /\ [][Next]_vars

(***************************************************************************)
(* Concurrent use: init(), then NumCalls goroutines each running EthData   *)
(* on a GrantReward of its own, step by step                               *)
(***************************************************************************)
CallInputs ==
    {[ZeroGrantReward EXCEPT !.rewardType = t, !.height = h] :
        t \in RewardTypes, h \in Heights}

InitConc ==
    /\ method = Unset
    /\ idArr = <<>>
    /\ descWrites = 0
    /\ bBuilder = ZeroAbstractAction
    /\ mem = [a \in {"b.grantReward", "g"} |-> ZeroGrantReward]
    /\ ent = "nil"
    /\ last = Called("none")
    /\ calls = [c \in 1..NumCalls |-> IdleCall]

\* init(): parses the interface and stores its grantReward method
InitDescriptor ==
    /\ method = Unset
    /\ method' = GrantRewardMethod
    /\ idArr' = SigHash
    /\ descWrites' = descWrites + 1
    /\ UNCHANGED <<bBuilder, mem, ent, last, calls>>

\* a goroutine enters g.EthData(); package code runs only after init()
EthDataEnter(c, g) ==
    /\ method # Unset
    /\ calls[c].pc = "idle"
    /\ calls' = [calls EXCEPT ![c] = [IdleCall EXCEPT !.pc = "pack", !.g = g]]
    /\ UNCHANGED <<method, idArr, descWrites, bBuilder, mem, ent, last>>

\* data, err := _grantRewardMethod.Inputs.Pack(...); if err != nil return
EthDataPack(c) ==
    /\ calls[c].pc = "pack"
    /\ LET packed == Pack(method.Inputs, EthArgs(calls[c].g))
       IN  calls' = [calls EXCEPT ![c].data = packed.data,
                                  ![c].err = packed.err,
                                  ![c].pc = IF packed.err # NoError THEN "done" ELSE "append"]
    /\ UNCHANGED <<method, idArr, descWrites, bBuilder, mem, ent, last>>

\* return append(_grantRewardMethod.ID, data...), nil
EthDataAppend(c) ==
    /\ calls[c].pc = "append"
    /\ LET r == GoAppend(idArr, method.ID, calls[c].data)
       IN  /\ idArr' = r.arr
           /\ descWrites' = IF r.arr = idArr THEN descWrites ELSE descWrites + 1
           /\ calls' = [calls EXCEPT ![c].ret = [shared |-> r.shared, len |-> r.len, own |-> r.own],
                                     ![c].pc = "done"]
    /\ UNCHANGED <<method, bBuilder, mem, ent, last>>

\* the caller is finished with the payload
EthDataDrop(c) ==
    /\ calls[c].pc = "done"
    /\ calls' = [calls EXCEPT ![c] = IdleCall]
    /\ UNCHANGED <<method, idArr, descWrites, bBuilder, mem, ent, last>>

NextConc ==
    \/ InitDescriptor
    \/ \E c \in 1..NumCalls, g \in CallInputs : EthDataEnter(c, g)
    \/ \E c \in 1..NumCalls : EthDataPack(c)
    \/ \E c \in 1..NumCalls : EthDataAppend(c)
    \/ \E c \in 1..NumCalls : EthDataDrop(c)

SpecConc == InitConc /\ [][NextConc]_vars

\* what a finished call's caller reads as its payload
Payload(c) == IF calls[c].err # NoError THEN <<>> ELSE Bytes(calls[c].ret, idArr)


(***************************************************************************)
(* Properties                                                              *)
(***************************************************************************)
DefinedTypes == {BlockReward, EpochReward}

\* C1: round trip. Whenever g.LoadProto(g.Proto()) has run on a g whose
\* rewardType was BlockReward or EpochReward, with any height (0 and the 64-bit
\* maximum included), it returned no error and g's RewardType() and Height()
\* are what they were before.
RoundTripLaw ==
    (last.op = "RoundTrip" /\ RewardType(last.prev) \in DefinedTypes)
        => /\ last.err = NoError
           /\ RewardType(mem[ent]) = RewardType(last.prev)
           /\ Height(mem[ent]) = Height(last.prev)

RoundTripDone ==
    /\ last.op = "RoundTrip"
    /\ RewardType(last.prev) = EpochReward
    /\ Height(last.prev) = MaxU64
    /\ RewardType(mem[ent]) = EpochReward

\* C2: IntrinsicGas() and Cost() return (0, no error) on every GrantReward
\* the program can hold, whatever its rewardType, height and base fragment.
ZeroGasAndCost ==
    /\ last.op = "IntrinsicGas" => (last.val = 0 /\ last.err = NoError)
    /\ last.op = "Cost" => (last.val = 0 /\ last.err = NoError)

IntrinsicGasAsked ==
    /\ last.op = "IntrinsicGas"
    /\ RewardType(mem[ent]) = 128
    /\ Height(mem[ent]) = MaxU64
    /\ mem[ent].AbstractAction.nonce = 1

\* C3: LoadProto returns no error for any message; a BLOCK_REWARD or
\* EPOCH_REWARD tag gives the matching variant, any other tag gives
\* BlockReward, and Height() is the message's height.
LoadProtoNeverFails ==
    last.op = "LoadProto"
        => /\ last.err = NoError
           /\ RewardType(mem[ent]) =
                 (IF last.msg.Type = RewardType_EpochReward THEN EpochReward ELSE BlockReward)
           /\ Height(mem[ent]) = last.msg.Height

LoadedUnknownTag ==
    /\ last.op = "LoadProto"
    /\ last.msg.Type \notin {RewardType_BlockReward, RewardType_EpochReward}
    /\ last.msg.Height = MaxU64
    /\ RewardType(mem[ent]) = BlockReward

\* C4: after LoadProto(m) every field of the receiver is determined by m
\* alone: the base-action fragment is the default one and nothing held
\* before the call survives.
LoadProtoReplacesState ==
    last.op = "LoadProto"
        => mem[ent] =
              [AbstractAction |-> ZeroAbstractAction,
               rewardType |-> (IF last.msg.Type = RewardType_EpochReward
                               THEN EpochReward ELSE BlockReward),
               height |-> last.msg.Height]

LoadedOverEpochReward ==
    /\ last.op = "LoadProto"
    /\ RewardType(last.prev) = EpochReward
    /\ last.prev.AbstractAction.nonce = 1
    /\ Height(last.prev) = MaxU64
    /\ last.msg = [Height |-> U64Of100, Type |-> 2]
    /\ RewardType(mem[ent]) = BlockReward

\* C5: every GrantReward a construction path has just produced (Build, or
\* LoadProto of any message) holds BlockReward or EpochReward.
ConstructedTypeIsDefined ==
    last.op \in {"Build", "LoadProto", "RoundTrip"}
        => RewardType(mem[ent]) \in DefinedTypes

\* C6: a GrantReward the caller holds is not changed by a later
\* SetRewardType, SetHeight or Build call on the builder.
BuildIsIndependent ==
    [][(ent # "nil" /\ last'.op \in {"SetRewardType", "SetHeight", "BuildUnused"})
          => mem'[ent] = mem[ent]]_vars

BuilderMovedOn ==
    /\ ent # "nil"
    /\ last.op = "BuildUnused"
    /\ mem[ent].AbstractAction.nonce = 1
    /\ mem["b.grantReward"].AbstractAction.nonce = 0
    /\ RewardType(mem[ent]) # RewardType(mem["b.grantReward"])
    /\ Height(mem[ent]) # Height(mem["b.grantReward"])

\* C7: for rewardType BlockReward or EpochReward and any height, EthData
\* returns no error and 4 + 64 bytes: the selector of
\* grantReward(int8,uint64), a 32-byte word holding rewardType, and a
\* 32-byte word holding height big-endian, zero-padded on the left.
EthDataLayout ==
    (last.op = "EthData" /\ RewardType(mem[ent]) \in DefinedTypes)
        => LET h == Height(mem[ent])
           IN  /\ last.err = NoError
               /\ Len(last.data) = 4 + 64
               /\ SubSeq(last.data, 1, 4) = <<215, 39, 120, 220>>
               /\ SubSeq(last.data, 5, 36) = Repeat(0, 31) \o <<RewardType(mem[ent])>>
               /\ SubSeq(last.data, 37, 60) = Repeat(0, 24)
               /\ SubSeq(last.data, 61, 68) =
                     <<h[4] \div 256, h[4] % 256, h[3] \div 256, h[3] % 256,
                       h[2] \div 256, h[2] % 256, h[1] \div 256, h[1] % 256>>

EthDataEncoded ==
    /\ last.op = "EthData"
    /\ RewardType(mem[ent]) = EpochReward
    /\ Height(mem[ent]) = U64Of100
    /\ Len(last.data) = 68

\* C8: EthData returns an error and no payload when rewardType is outside
\* -128..127, and never a payload whose rewardType word differs from the
\* receiver's rewardType.
EthDataRejectsOverflow ==
    last.op = "EthData"
        => /\ (RewardType(mem[ent]) > 127 \/ RewardType(mem[ent]) < -128)
                 => (last.err # NoError /\ last.data = <<>>)
           /\ last.err = NoError
                 => (IF last.data[36] >= 128 THEN last.data[36] - 256 ELSE last.data[36])
                       = RewardType(mem[ent])

DescriptorWrittenOnce ==
    /\ descWrites <= 1
    /\ method = Unset => \A c \in 1..NumCalls : calls[c].pc = "idle"
    /\ method # Unset =>
          (method = GrantRewardMethod /\ idArr = SigHash /\ descWrites = 1)
    /\ \A c \in 1..NumCalls :
          calls[c].pc = "done" =>
             LET alone == EthData(calls[c].g, GrantRewardMethod, SigHash)
             IN  /\ calls[c].err = alone.err
                 /\ Payload(c) = alone.data

TwoCallsFinished ==
    /\ calls[1].pc = "done"
    /\ calls[2].pc = "done"
    /\ calls[1].g # calls[2].g
    /\ Len(Payload(1)) = 68

====
